---- MODULE Spec2Model ----
(***************************************************************************)
(* A model of the zero2prod newsletter service: the POST /subscriptions    *)
(* handler (routes/subscriptions.rs), the name and email validation of the *)
(* domain module, and the REST email client (email_client.rs).             *)
(*                                                                         *)
(* A string is a sequence of characters; a character is a one-element      *)
(* TLA+ string, except the combining mark U+030A, written "U+030A".        *)
(***************************************************************************)
EXTENDS Integers, Sequences, FiniteSets, TLC

VARIABLES
    pc,       \* per request: where the request is in its handling
    form,     \* per request: the decoded form body, a function from field names
    result,   \* per request: what insert_subscriber returned ("none" before)
    rid,      \* per request: the identifier generated by insert_subscriber
    resp,     \* per request: the HTTP response produced (NoResp before)
    store,    \* the subscriptions table: a set of rows
    client,   \* the EmailClient built at start-up
    call,     \* per send_email call: position, arguments, returned value
    outbox,   \* the HTTP requests issued to the email provider, in order
    cause,    \* per request: the check that rejected it ("none" if none did)
    health,   \* the responses to GET /health_check, in the order given
    config,   \* the email_client settings read at start-up
    proc,     \* the process: "starting", "serving", "panicked" or "exited"
    raw,      \* the string handed to a parse function
    out,      \* what the parse functions made of it
    subscriber \* the NewSubscriber values assembled

vars == <<pc, form, result, rid, resp, store, client, call, outbox,
          cause, health, config, proc, raw, out, subscriber>>

svcVars == <<pc, form, result, rid, resp, store, cause>>
mailVars == <<client, call, outbox, config, proc>>
parseVars == <<raw, out, subscriber>>

(***************************************************************************)
(* Bounds of the model.                                                    *)
(***************************************************************************)
MaxReq == 2        \* subscribe requests, all of which may be in flight at once
NumUuids == 2      \* size of the space Uuid::new_v4() draws from
MaxCalls == 2      \* send_email calls, all of which may be in flight at once
MaxRedirects == 1  \* redirects the provider answers with, over all calls

Reqs == 1..MaxReq
UuidSpace == 1..NumUuids
Calls == 1..MaxCalls

(***************************************************************************)
(* Characters.                                                             *)
(***************************************************************************)
WhiteSpace == {" ", "\t", "\n", "\r"}
CombiningMarks == {"U+030A"}
AsciiLetters ==
    {"a", "b", "c", "d", "e", "f", "g", "h", "i", "j", "k", "l", "m", "n", "o",
     "p", "q", "r", "s", "t", "u", "v", "w", "x", "y", "z", "J", "D"}
Digits == {"0", "1", "2", "3", "4", "5", "6", "7", "8", "9"}
NonAsciiLetters == {"å"}

\* consts::MAX_NAME_LEN and consts::FORBIDDEN_NAME_CHARACTERS
MAX_NAME_LEN == 256
FORBIDDEN_NAME_CHARACTERS == {"/", "(", ")", "\"", "<", ">", "\\", "{", "}"}

(***************************************************************************)
(* str::trim: the string without its leading and trailing white space.     *)
(***************************************************************************)
NonWhiteSpaceAt(s) == {i \in 1..Len(s) : s[i] \notin WhiteSpace}

TrimStart(s) ==
    IF NonWhiteSpaceAt(s) = {} THEN <<>>
    ELSE LET first == CHOOSE i \in NonWhiteSpaceAt(s) : \A j \in NonWhiteSpaceAt(s) : i <= j
         IN  SubSeq(s, first, Len(s))

TrimEnd(s) ==
    IF NonWhiteSpaceAt(s) = {} THEN <<>>
    ELSE LET last == CHOOSE i \in NonWhiteSpaceAt(s) : \A j \in NonWhiteSpaceAt(s) : j <= i
         IN  SubSeq(s, 1, last)

Trim(s) == TrimEnd(TrimStart(s))

(***************************************************************************)
(* graphemes(true).count(): the number of extended grapheme clusters. A    *)
(* cluster starts at every character that is not a combining mark          *)
(* following another character and not the LF of a CR LF pair.             *)
(***************************************************************************)
StartsCluster(s, i) ==
    \/ i = 1
    \/ /\ s[i] \notin CombiningMarks
       /\ ~(s[i - 1] = "\r" /\ s[i] = "\n")
    \/ /\ s[i] \in CombiningMarks
       /\ s[i - 1] \in {"\r", "\n", "\t"}

GraphemeCount(s) == Cardinality({i \in 1..Len(s) : StartsCluster(s, i)})

is_valid_name_no_forbidden_check(name) ==
    LET is_empty_or_whitespace == Trim(name) = <<>>
        is_too_long == GraphemeCount(name) > MAX_NAME_LEN
    IN  ~(is_empty_or_whitespace \/ is_too_long)

is_valid_name_counts_chars(name) ==
    LET is_empty_or_whitespace == Trim(name) = <<>>
        is_too_long == Len(name) > MAX_NAME_LEN
        contains_a_forbidden_character ==
            \E i \in 1..Len(name) : name[i] \in FORBIDDEN_NAME_CHARACTERS
    IN  ~(is_empty_or_whitespace \/ is_too_long \/ contains_a_forbidden_character)

\* routes::subscriptions::is_valid_name
is_valid_name(name) ==
    LET is_empty_or_whitespace == Trim(name) = <<>>
        is_too_long == GraphemeCount(name) > MAX_NAME_LEN
        contains_a_forbidden_character ==
            \E i \in 1..Len(name) : name[i] \in FORBIDDEN_NAME_CHARACTERS
    IN  ~(is_empty_or_whitespace \/ is_too_long \/ contains_a_forbidden_character)

domain_is_valid_name_without_trim(name) ==
    LET is_empty_or_whitespace == name = <<>>
        is_too_long == GraphemeCount(name) > MAX_NAME_LEN
        contains_a_forbidden_character ==
            \E i \in 1..Len(name) : name[i] \in FORBIDDEN_NAME_CHARACTERS
    IN  ~(is_empty_or_whitespace \/ is_too_long \/ contains_a_forbidden_character)

domain_is_valid_name_off_by_one(name) ==
    LET is_empty_or_whitespace == Trim(name) = <<>>
        is_too_long == GraphemeCount(name) >= MAX_NAME_LEN
        contains_a_forbidden_character ==
            \E i \in 1..Len(name) : name[i] \in FORBIDDEN_NAME_CHARACTERS
    IN  ~(is_empty_or_whitespace \/ is_too_long \/ contains_a_forbidden_character)

\* domain::is_valid_name, the check behind SubscriberName::parse
domain_is_valid_name(name) ==
    LET is_empty_or_whitespace == Trim(name) = <<>>
        is_too_long == GraphemeCount(name) > MAX_NAME_LEN
        contains_a_forbidden_character ==
            \E i \in 1..Len(name) : name[i] \in FORBIDDEN_NAME_CHARACTERS
    IN  ~(is_empty_or_whitespace \/ is_too_long \/ contains_a_forbidden_character)

(***************************************************************************)
(* validator::validate_email (the free function of the validator crate,    *)
(* which subscriber_email.rs imports), as SubscriberEmail::parse calls it: *)
(* the string is split at its last '@'; the user part is a non-empty run   *)
(* of at most 64 characters of the HTML5 user alphabet; the domain part,   *)
(* at most 255 characters, passes validate_domain_part: it is a            *)
(* dot-separated list of labels, each of letters, digits and inner         *)
(* hyphens (an internationalised domain is checked in its ASCII form,      *)
(* where its letters are label characters), or it ends with an IP address  *)
(* in square brackets. The pattern of the bracketed literal is anchored at *)
(* the end of the domain part only, so that any text may stand before the  *)
(* opening bracket.                                                        *)
(***************************************************************************)
UserChars ==
    AsciiLetters \cup Digits \cup
    {".", "!", "#", "$", "%", "&", "'", "*", "+", "/", "=", "?", "^", "_",
     "{", "|", "}", "~", "-"}

LabelChars == AsciiLetters \cup Digits \cup NonAsciiLetters

\* The character class of the literal pattern, [A-f0-9:\.] matched without
\* regard to case: the letters, the digits, ':' and '.', and the characters
\* between 'Z' and 'a' (the backquote, which is one of them and one of the
\* user characters too, is no character of the model).
HexDigits == Digits \cup {"a", "b", "c", "d", "e", "f", "A", "B", "C", "D", "E", "F"}
LiteralChars ==
    AsciiLetters \cup HexDigits \cup {":", ".", "[", "\\", "]", "^", "_"}

LastAt(s) ==
    LET ats == {i \in 1..Len(s) : s[i] = "@"}
    IN  CHOOSE i \in ats : \A j \in ats : j <= i

\* str::split: the pieces of s between the occurrences of sep
RECURSIVE SplitAt(_, _)
SplitAt(s, sep) ==
    IF \A i \in 1..Len(s) : s[i] # sep
    THEN <<s>>
    ELSE LET i == CHOOSE k \in 1..Len(s) :
                     s[k] = sep /\ \A j \in 1..(k - 1) : s[j] # sep
         IN  <<SubSeq(s, 1, i - 1)>> \o SplitAt(SubSeq(s, i + 1, Len(s)), sep)

DigitValue(ch) ==
    CHOOSE n \in 0..9 :
        <<"0", "1", "2", "3", "4", "5", "6", "7", "8", "9">>[n + 1] = ch

\* Ipv4Addr::from_str: four decimal numbers of up to three digits, none
\* above 255 and none with a leading zero, separated by dots.
IsOctet(p) ==
    /\ Len(p) \in 1..3
    /\ \A i \in 1..Len(p) : p[i] \in Digits
    /\ Len(p) > 1 => p[1] # "0"
    /\ LET v == IF Len(p) = 1 THEN DigitValue(p[1])
                ELSE IF Len(p) = 2 THEN 10 * DigitValue(p[1]) + DigitValue(p[2])
                ELSE 100 * DigitValue(p[1]) + 10 * DigitValue(p[2])
                         + DigitValue(p[3])
       IN  v <= 255

IsIpv4(s) ==
    LET parts == SplitAt(s, ".")
    IN  Len(parts) = 4 /\ \A k \in 1..4 : IsOctet(parts[k])

\* Ipv6Addr::from_str: eight groups of one to four hexadecimal digits
\* separated by colons; one "::" may stand for one or more groups; the last
\* two groups may be written as an IPv4 address.
IsGroup(g) == Len(g) \in 1..4 /\ \A i \in 1..Len(g) : g[i] \in HexDigits

Groups(s) == IF s = <<>> THEN <<>> ELSE SplitAt(s, ":")

GroupsValid(gs, v4_allowed) ==
    \A k \in 1..Len(gs) :
        \/ IsGroup(gs[k])
        \/ v4_allowed /\ k = Len(gs) /\ IsIpv4(gs[k])

GroupCount(gs) ==
    IF gs # <<>> /\ IsIpv4(gs[Len(gs)]) THEN Len(gs) + 1 ELSE Len(gs)

IsIpv6(s) ==
    LET gaps == {i \in 1..(Len(s) - 1) : s[i] = ":" /\ s[i + 1] = ":"}
    IN  IF gaps = {}
        THEN LET gs == Groups(s)
             IN  GroupsValid(gs, TRUE) /\ GroupCount(gs) = 8
        ELSE IF Cardinality(gaps) > 1 THEN FALSE
        ELSE LET i == CHOOSE k \in gaps : TRUE
                 head == Groups(SubSeq(s, 1, i - 1))
                 tail == Groups(SubSeq(s, i + 2, Len(s)))
             IN  /\ GroupsValid(head, FALSE)
                 /\ GroupsValid(tail, TRUE)
                 /\ Len(head) + GroupCount(tail) <= 7

\* validate_ip: IpAddr::from_str(val).is_ok()
validate_ip(val) == IsIpv4(val) \/ IsIpv6(val)

\* EMAIL_DOMAIN_RE
EmailDomainRe(d) ==
    /\ d # <<>>
    /\ \A i \in 1..Len(d) : d[i] \in LabelChars \cup {"-", "."}
    /\ \A i \in 1..Len(d) :
          d[i] \in {"-", "."} =>
              /\ i > 1 /\ i < Len(d)
              /\ d[i] = "." => (d[i - 1] \in LabelChars /\ d[i + 1] \in LabelChars)
    /\ \A i \in 1..Len(d) : \A j \in i..Len(d) :
          (\A k \in i..j : d[k] # ".") => j - i + 1 <= 63

\* EMAIL_LITERAL_RE.captures: the leftmost '[' from which the rest of the
\* domain part is characters of the class and then the closing ']'; the
\* captured text is what stands between the two.
LiteralStarts(d) ==
    {i \in 1..Len(d) : /\ d[i] = "["
                       /\ d[Len(d)] = "]"
                       /\ i + 1 < Len(d)
                       /\ \A k \in (i + 1)..(Len(d) - 1) : d[k] \in LiteralChars}

EmailLiteralRe(d) ==
    IF LiteralStarts(d) = {}
    THEN [matched |-> FALSE, capture |-> <<>>]
    ELSE LET i == CHOOSE k \in LiteralStarts(d) : \A j \in LiteralStarts(d) : k <= j
         IN  [matched |-> TRUE, capture |-> SubSeq(d, i + 1, Len(d) - 1)]

ValidDomainPartRequiresDot(d) ==
    /\ \E i \in 1..Len(d) : d[i] = "."
    /\ \/ EmailDomainRe(d)
       \/ EmailLiteralRe(d).matched /\ validate_ip(EmailLiteralRe(d).capture)

\* validate_domain_part
ValidDomainPart(d) ==
    \/ EmailDomainRe(d)
    \/ EmailLiteralRe(d).matched /\ validate_ip(EmailLiteralRe(d).capture)

validate_email(val) ==
    IF val = <<>> \/ ~(\E i \in 1..Len(val) : val[i] = "@")
    THEN FALSE
    ELSE LET at == LastAt(val)
             user_part == SubSeq(val, 1, at - 1)
             domain_part == SubSeq(val, at + 1, Len(val))
         IN  /\ Len(user_part) <= 64
             /\ Len(domain_part) <= 255
             /\ user_part # <<>>
             /\ \A i \in 1..Len(user_part) : user_part[i] \in UserChars
             /\ ValidDomainPart(domain_part)

(***************************************************************************)
(* The validated value types. A Result is a record: kind "Ok" with the     *)
(* wrapped value, or kind "Err" with the error message; a call that        *)
(* panics returns nothing, which is kind "panic" with the panic message.   *)
(***************************************************************************)
Quoted(s) == <<"\"">> \o s \o <<"\"">>

SubscriberEmail_parse_unchecked(email) == [kind |-> "Ok", value |-> email]

\* SubscriberEmail::parse
SubscriberEmail_parse(email) ==
    IF validate_email(email)
    THEN [kind |-> "Ok", value |-> email]
    ELSE [kind |-> "Err",
          value |-> Quoted(email) \o <<" is not a valid subscriber email.">>]

SubscriberName_parse_trimmed(name) ==
    IF ~domain_is_valid_name(name)
    THEN [kind |-> "panic",
          value |-> Quoted(name) \o <<" is not a valid subscriber name.">>]
    ELSE [kind |-> "Ok", value |-> Trim(name)]

\* SubscriberName::parse
SubscriberName_parse(name) ==
    IF ~domain_is_valid_name(name)
    THEN [kind |-> "panic",
          value |-> Quoted(name) \o <<" is not a valid subscriber name.">>]
    ELSE [kind |-> "Ok", value |-> name]

\* AsRef<str> for SubscriberEmail and for SubscriberName: the wrapped string
as_ref(v) == v.value

(***************************************************************************)
(* The form bodies the model submits to POST /subscriptions, after the     *)
(* transport's URL-decoding: a function from the field names present.      *)
(***************************************************************************)
SampleEmails ==
    { <<"a", "@", "b">>,          \* a valid address
      <<"a">>,                    \* no '@'
      <<>> }                      \* empty

SampleNames ==
    { <<"a">>,                    \* a valid name
      <<" ", "a", " ">>,          \* valid, with surrounding white space
      <<>>,                       \* empty
      <<" ">>,                    \* white space only
      <<"a", "<">> }              \* a forbidden character

FormBodies ==
    {<<>>}
    \cup {[email |-> e] : e \in SampleEmails}
    \cup {[name |-> n] : n \in SampleNames}
    \cup {[email |-> e, name |-> n] : e \in SampleEmails, n \in SampleNames}

NoForm == <<>>
NoResp == [status |-> 0, body |-> <<>>]
EmptyBody == <<>>

\* HttpResponse::Ok().finish(), BadRequest().finish(), InternalServerError().finish()
HttpResponse(status) == [status |-> status, body |-> EmptyBody]

(***************************************************************************)
(* The start-up state: no request received, an empty subscriptions table.  *)
(***************************************************************************)
NoCall == [pc |-> "idle", recipient |-> <<>>, subject |-> "", html_body |-> "",
           text_body |-> "", ret |-> "none", status |-> 0, hops |-> 0]

NoClient == [base_url |-> <<>>, sender |-> <<>>, authorization_token |-> <<>>]

InitService ==
    /\ pc = [r \in Reqs |-> "idle"]
    /\ form = [r \in Reqs |-> NoForm]
    /\ result = [r \in Reqs |-> "none"]
    /\ rid = [r \in Reqs |-> 0]
    /\ resp = [r \in Reqs |-> NoResp]
    /\ store = {}
    /\ cause = [r \in Reqs |-> "none"]
    /\ health = <<>>

NoConfig == [base_url |-> <<>>, sender_email |-> <<>>, authorization_token |-> <<>>]
NoRaw == [kind |-> "none", s |-> <<>>]
NoOut == [parse |-> [kind |-> "none", value |-> <<>>], valid |-> "none"]

\* No parse function is being applied and no NewSubscriber assembled.
InitParseIdle ==
    /\ raw = NoRaw
    /\ out = NoOut
    /\ subscriber = {}

Init ==
    /\ InitService
    /\ client = NoClient
    /\ call = [c \in Calls |-> NoCall]
    /\ outbox = <<>>
    /\ config = NoConfig
    /\ proc = "serving"
    /\ InitParseIdle

(***************************************************************************)
(* A POST /subscriptions request arrives with a form body.                 *)
(***************************************************************************)
Receive(r, body) ==
    /\ pc[r] = "idle"
    /\ pc' = [pc EXCEPT ![r] = "received"]
    /\ form' = [form EXCEPT ![r] = body]
    /\ UNCHANGED <<result, rid, resp, store, cause, health, mailVars, parseVars>>

FormDataOptionalEmail(body) == "name" \in DOMAIN body

(***************************************************************************)
(* web::Form<FormData>: the body deserialises into FormData only when it   *)
(* has both fields, email and name.                                        *)
(***************************************************************************)
FormData(body) == {"email", "name"} \subseteq DOMAIN body

(***************************************************************************)
(* The response to a body that does not deserialise into FormData. No line *)
(* of the repository builds it: it is the framework's error response for   *)
(* the extractor's UrlencodedError::Parse, status 400 with the error's     *)
(* text as body, "Parse error: missing field `email`." (the body is kept   *)
(* as its three parts; the field named is the first one, in the order of   *)
(* the struct, that the form lacks).                                       *)
(***************************************************************************)
MissingField(body) == IF "email" \notin DOMAIN body THEN "email" ELSE "name"

UrlencodedErrorResponse(body) ==
    [status |-> 400,
     body |-> <<"Parse error: missing field ", MissingField(body), ".">>]

(***************************************************************************)
(* The extractor of subscribe's first argument: a body that is no FormData *)
(* is answered 400 and subscribe is not called.                            *)
(***************************************************************************)
Extract(r) ==
    /\ pc[r] = "received"
    /\ IF FormData(form[r])
       THEN /\ pc' = [pc EXCEPT ![r] = "subscribe"]
            /\ UNCHANGED <<resp, cause>>
       ELSE /\ pc' = [pc EXCEPT ![r] = "done"]
            /\ resp' = [resp EXCEPT ![r] = UrlencodedErrorResponse(form[r])]
            /\ cause' = [cause EXCEPT ![r] = "form"]
    /\ UNCHANGED <<form, result, rid, store, health, mailVars, parseVars>>

(***************************************************************************)
(* subscribe, up to its await: the name check.                             *)
(***************************************************************************)
SubscribeValidate(r) ==
    /\ pc[r] = "subscribe"
    /\ IF ~is_valid_name(form[r].name)
       THEN /\ pc' = [pc EXCEPT ![r] = "done"]
            /\ resp' = [resp EXCEPT ![r] = HttpResponse(400)]
            /\ cause' = [cause EXCEPT ![r] = "name"]
       ELSE /\ pc' = [pc EXCEPT ![r] = "insert"]
            /\ UNCHANGED <<resp, cause>>
    /\ UNCHANGED <<form, result, rid, store, health, mailVars, parseVars>>

(***************************************************************************)
(* insert_subscriber: one INSERT of (Uuid::new_v4(), form.email,           *)
(* form.name, Utc::now()). The table's primary key is id, so the INSERT    *)
(* succeeds only with an id no row has; an INSERT may also fail with any   *)
(* other storage error. A failed INSERT leaves the table as it was.        *)
(***************************************************************************)
RowTrimmedName(id, f) == [id |-> id, email |-> f.email, name |-> Trim(f.name)]

\* The row insert_subscriber writes (the timestamp is left out of the model).
Row(id, f) == [id |-> id, email |-> f.email, name |-> f.name]

PrimaryKeyUnchecked(id) == TRUE

\* The table's primary key: no row has this id yet.
PrimaryKeyFree(id) == \A row \in store : row.id # id

InsertOk(r, id) ==
    /\ pc[r] = "insert"
    /\ PrimaryKeyFree(id)
    /\ store' = store \cup {Row(id, form[r])}
    /\ rid' = [rid EXCEPT ![r] = id]
    /\ result' = [result EXCEPT ![r] = "Ok"]
    /\ pc' = [pc EXCEPT ![r] = "inserted"]
    /\ UNCHANGED <<form, resp, cause, health, mailVars, parseVars>>

\* The INSERT is refused because a row already has the generated id.
InsertConflict(r, id) ==
    /\ pc[r] = "insert"
    /\ ~PrimaryKeyFree(id)
    /\ rid' = [rid EXCEPT ![r] = id]
    /\ result' = [result EXCEPT ![r] = "Err"]
    /\ pc' = [pc EXCEPT ![r] = "inserted"]
    /\ UNCHANGED <<form, resp, store, cause, health, mailVars, parseVars>>

\* The INSERT fails for any other reason (connection, query).
InsertErr(r) ==
    /\ pc[r] = "insert"
    /\ result' = [result EXCEPT ![r] = "Err"]
    /\ pc' = [pc EXCEPT ![r] = "inserted"]
    /\ UNCHANGED <<form, rid, resp, store, cause, health, mailVars, parseVars>>

MatchInsertResultAlwaysOk(res) == HttpResponse(200)

\* subscribe's match on the result of insert_subscriber
MatchInsertResult(res) ==
    IF res = "Ok" THEN HttpResponse(200) ELSE HttpResponse(500)

SubscribeRespond(r) ==
    /\ pc[r] = "inserted"
    /\ resp' = [resp EXCEPT ![r] = MatchInsertResult(result[r])]
    /\ pc' = [pc EXCEPT ![r] = "done"]
    /\ UNCHANGED <<form, result, rid, store, cause, health, mailVars, parseVars>>

Next ==
    \/ \E r \in Reqs, body \in FormBodies : Receive(r, body)
    \/ \E r \in Reqs : Extract(r)
    \/ \E r \in Reqs : SubscribeValidate(r)
    \/ \E r \in Reqs, id \in UuidSpace : InsertOk(r, id)
    \/ \E r \in Reqs, id \in UuidSpace : InsertConflict(r, id)
    \/ \E r \in Reqs : InsertErr(r)
    \/ \E r \in Reqs : SubscribeRespond(r)

Spec == Init /\ [][Next]_vars

(***************************************************************************)
(* The email client. A URL is a sequence of tokens: a scheme, a host, then *)
(* path segments. reqwest's IntoUrl accepts an absolute URL only.          *)
(***************************************************************************)
Schemes == {"http://", "https://"}
Hosts == {"provider.test"}

IntoUrl(url) == Len(url) >= 2 /\ url[1] \in Schemes /\ url[2] \in Hosts

SampleBaseUrls ==
    { <<"http://", "provider.test">>,     \* the provider's API, or a mock server
      <<"provider.test">> }               \* no scheme: not an absolute URL

SampleSenders == { <<"n", "@", "b">> }
SampleTokens ==
    { <<"t", "o", "k">>,                  \* a server token
      <<"t", "\n">> }                     \* a line break: no legal header value
SampleRecipients == { <<"a", "@", "b">>, <<"b", "@", "a">> }
SampleSubjects == { "subject-1" }
SampleHtmlBodies == { "html-1" }
SampleTextBodies == { "text-1" }

\* What the provider may answer with: a final status, or a redirect to a
\* Location the client can follow.
ProviderStatuses == {200, 202, 400, 500}
RedirectStatuses == {303, 307}
SampleLocations == { <<"http://", "provider.test", "/moved">> }

\* http::HeaderValue: visible ASCII, space and tab; no other control
\* character.
HeaderValueLegal(v) == \A i \in 1..Len(v) : v[i] \notin {"\n", "\r"}

\* EmailClient::new
EmailClientNew(base_url, sender, authorization_token) ==
    [base_url |-> base_url, sender |-> sender,
     authorization_token |-> authorization_token]

\* The sender_email settings tried: the senders above and an invalid one.
SampleSenderSettings == SampleSenders \cup { <<"n", " ", "@", "b">> }

\* The strings a caller may try to make a recipient of.
SampleRawRecipients == SampleRecipients \cup { <<"a">>, <<>> }

\* The process has read its configuration and nothing else has happened.
InitMail ==
    /\ InitService
    /\ InitParseIdle
    /\ config \in [base_url : SampleBaseUrls, sender_email : SampleSenderSettings,
                    authorization_token : SampleTokens]
    /\ proc = "starting"
    /\ client = NoClient
    /\ call = [c \in Calls |-> NoCall]
    /\ outbox = <<>>

\* EmailClientSettings::get_sender
get_sender(settings) == SubscriberEmail_parse(settings.sender_email)

(***************************************************************************)
(* main: `TcpListener::bind(address)?` returns the error of a failed bind  *)
(* and main ends before anything else is looked at. With the listener      *)
(* bound, the sender address is parsed and `expect` panics on an invalid   *)
(* one; otherwise the EmailClient is built and run is called: the server   *)
(* runs, or run returns an error (the listener cannot be used) and main    *)
(* returns it without serving.                                             *)
(***************************************************************************)
Main ==
    /\ proc = "starting"
    /\ \E bound \in BOOLEAN :
          LET sender_email == get_sender(config)
          IN  IF ~bound
              THEN /\ proc' = "exited"
                   /\ UNCHANGED client
              ELSE IF sender_email.kind = "Ok"
              THEN /\ client' = EmailClientNew(config.base_url, as_ref(sender_email),
                                               config.authorization_token)
                   /\ \E listening \in BOOLEAN :
                         proc' = IF listening THEN "serving" ELSE "exited"
              ELSE /\ proc' = "panicked"
                   /\ UNCHANGED client
    /\ UNCHANGED <<svcVars, health, parseVars, call, outbox, config>>

(***************************************************************************)
(* main, at `run(..)?.await?`: the server future completes, with Ok or     *)
(* with an error, and main returns; nothing is served any longer.          *)
(***************************************************************************)
ServerEnds ==
    /\ proc = "serving"
    /\ proc' = "exited"
    /\ UNCHANGED <<svcVars, health, parseVars, client, call, outbox, config>>

SendEmailRequestSwapped(sender, recipient, subject, html_body, text_body) ==
    [From |-> recipient, To |-> sender, Subject |-> subject,
     HtmlBody |-> html_body, TextBody |-> text_body]

\* struct SendEmailRequest, serialised with rename_all = "PascalCase"
SendEmailRequest(sender, recipient, subject, html_body, text_body) ==
    [From |-> sender, To |-> recipient, Subject |-> subject,
     HtmlBody |-> html_body, TextBody |-> text_body]

\* format!("{}/email", self.base_url)
EmailUrl(base_url) == base_url \o <<"/email">>

SendWithRetry(req) == <<req, req>>

\* RequestBuilder::send: the request is handed to the HTTP client once
Send(req) == <<req>>

(***************************************************************************)
(* What send_email returns once `.send().await?` has completed: the `?`    *)
(* propagates a reqwest::Error; any response, of any status, is dropped    *)
(* and Ok(()) returned.                                                    *)
(***************************************************************************)
SendEmailResult(kind, status) ==
    IF kind = "response" THEN "Ok" ELSE "Err"

(***************************************************************************)
(* send_email, up to its await: the URL, the header and the body are built *)
(* and the POST is sent. A URL that does not parse, or a token that is no  *)
(* legal header value, is kept as an error in the RequestBuilder and makes *)
(* send() fail at once, with no request issued.                            *)
(***************************************************************************)
SendEmail(c, recipient, subject, html_body, text_body) ==
    /\ proc = "serving"
    /\ call[c].pc = "idle"
    /\ \A b \in Calls : b < c => call[b].pc # "idle"    \* calls are numbered as made
    /\ LET url == EmailUrl(client.base_url)
           request_body == SendEmailRequest(client.sender, recipient, subject,
                                            html_body, text_body)
           req == [call |-> c, hop |-> 0, method |-> "POST", url |-> url,
                   headers |-> {<<"X-Postmark-Server-Token",
                                  client.authorization_token>>,
                                <<"Content-Type", <<"application/json">>>>},
                   json |-> request_body]
           args == [NoCall EXCEPT !.recipient = recipient, !.subject = subject,
                                  !.html_body = html_body, !.text_body = text_body]
       IN  IF IntoUrl(url) /\ HeaderValueLegal(client.authorization_token)
           THEN /\ outbox' = outbox \o Send(req)
                /\ call' = [call EXCEPT ![c] = [args EXCEPT !.pc = "awaiting"]]
           ELSE /\ outbox' = outbox
                /\ call' = [call EXCEPT ![c] =
                              [args EXCEPT !.pc = "returned",
                                           !.ret = SendEmailResult("builder_error", 0)]]
    /\ UNCHANGED <<svcVars, health, parseVars, client, config, proc>>

\* The provider answers the request of call c with an HTTP status.
ProviderResponds(c, status) ==
    /\ proc = "serving"
    /\ call[c].pc = "awaiting"
    /\ call' = [call EXCEPT ![c].pc = "returned",
                            ![c].status = status,
                            ![c].ret = SendEmailResult("response", status)]
    /\ UNCHANGED <<svcVars, health, parseVars, client, outbox, config, proc>>

(***************************************************************************)
(* The provider answers the request of call c with a redirect. The client  *)
(* is built by Client::new(), whose redirect policy follows up to ten      *)
(* redirects: the HTTP client issues a further request to the Location     *)
(* and send() goes on awaiting. After 301, 302 and 303 the follow-up is a  *)
(* GET without the body and its content headers; after 307 and 308 the     *)
(* request is repeated as it was. The provider redirects MaxRedirects      *)
(* times at most here.                                                     *)
(***************************************************************************)
NoBody == <<>>

RECURSIVE HopsUpTo(_)
HopsUpTo(c) == IF c = 0 THEN 0 ELSE call[c].hops + HopsUpTo(c - 1)

LastRequestOf(c) ==
    outbox[CHOOSE i \in 1..Len(outbox) :
              /\ outbox[i].call = c
              /\ \A j \in 1..Len(outbox) : outbox[j].call = c => j <= i]

FollowUp(q, status, location) ==
    IF status \in {301, 302, 303}
    THEN [q EXCEPT !.hop = @ + 1, !.method = "GET", !.url = location,
                   !.headers = {h \in @ : h[1] # "Content-Type"},
                   !.json = NoBody]
    ELSE [q EXCEPT !.hop = @ + 1, !.url = location]

ProviderRedirects(c, status, location) ==
    /\ proc = "serving"
    /\ call[c].pc = "awaiting"
    /\ HopsUpTo(MaxCalls) < MaxRedirects
    /\ outbox' = Append(outbox, FollowUp(LastRequestOf(c), status, location))
    /\ call' = [call EXCEPT ![c].hops = @ + 1]
    /\ UNCHANGED <<svcVars, health, parseVars, client, config, proc>>

\* The request of call c fails in transport (provider unreachable).
TransportFails(c) ==
    /\ proc = "serving"
    /\ call[c].pc = "awaiting"
    /\ call' = [call EXCEPT ![c].pc = "returned",
                            ![c].ret = SendEmailResult("transport_error", 0)]
    /\ UNCHANGED <<svcVars, health, parseVars, client, outbox, config, proc>>

(***************************************************************************)
(* A caller of send_email must hold a SubscriberEmail, which only          *)
(* SubscriberEmail::parse makes.                                           *)
(***************************************************************************)
Dispatch(c, s, subject, html_body, text_body) ==
    LET recipient == SubscriberEmail_parse(s)
    IN  /\ recipient.kind = "Ok"
        /\ SendEmail(c, as_ref(recipient), subject, html_body, text_body)

NextMail ==
    \/ Main
    \/ ServerEnds
    \/ \E c \in Calls, s \in SampleRawRecipients, subject \in SampleSubjects,
          html_body \in SampleHtmlBodies, text_body \in SampleTextBodies :
          Dispatch(c, s, subject, html_body, text_body)
    \/ \E c \in Calls, status \in ProviderStatuses : ProviderResponds(c, status)
    \/ \E c \in Calls, status \in RedirectStatuses, location \in SampleLocations :
          ProviderRedirects(c, status, location)
    \/ \E c \in Calls : TransportFails(c)

SpecMail == InitMail /\ [][NextMail]_vars

(***************************************************************************)
(* The parse functions on their own: a string is drawn, the functions are  *)
(* applied to it, and NewSubscriber values are assembled from it.          *)
(***************************************************************************)
MaxNameStrLen == 3      \* names: every string up to this length, and the long ones
MaxEmailStrLen == 4     \* emails: every string up to this length, and the samples

NameAlphabet == {"a", "å", "U+030A", " ", "\t", ".", "<", "}"}
EmailAlphabet == {"a", "@", ".", "-", " ", "_"}

StringsUpTo(alphabet, n) == UNION {[1..k -> alphabet] : k \in 0..n}

Repeat(ch, n) == [i \in 1..n |-> ch]
RepeatPair(ch1, ch2, n) == [i \in 1..(2 * n) |-> IF i % 2 = 1 THEN ch1 ELSE ch2]

\* The names of the unit tests, and names around MAX_NAME_LEN grapheme clusters.
TestNames ==
    { <<" ", " ", "\t", " ", "\n", " ", " ", "J", "o", "h", "n", " ", " ", "\t", " ", "\n", " ", " ", "D", "o", "e", " ", "\t", " ", "\n", " ", " ">>,
      <<".", " ", ",", " ", "?", " ", "!", " ", ":", " ", ";", " ", "-", " ", "_">>,
      <<"/", "\\">> }

LongNames ==
    {Repeat(ch, n) : ch \in {"a", "å", " "},
                     n \in (MAX_NAME_LEN - 1)..(MAX_NAME_LEN + 2)}
    \cup {RepeatPair("a", "U+030A", n) : n \in MAX_NAME_LEN..(MAX_NAME_LEN + 1)}
    \cup {Repeat("a", MAX_NAME_LEN) \o <<"<">>}

NameInputs == StringsUpTo(NameAlphabet, MaxNameStrLen) \cup TestNames \cup LongNames

\* The addresses of the unit tests.
UrsulaLeGuin == <<"u", "r", "s", "u", "l", "a", "_", "l", "e", "_", "g", "u", "i", "n", "@", "g", "m", "a", "i", "l", ".", "c", "o", "m">>
TestEmails ==
    { UrsulaLeGuin,
      <<"j", "o", "h", "n", ".", "d", "o", "e", "@", "d", "o", "m", "a", "i", "n", ".", "y", "q">>,
      <<"j", "o", "h", "n", " ", "d", "o", "e", "@", "d", "o", "m", "a", "i", "n", ".", "y", "q">>,
      <<"j", "o", "h", "n", "_", "d", "o", "e", "@", "d", "o", "m", " ", "a", "i", "n", ".", "y", "q">>,
      <<"j", "o", "h", "n", ".", "d", "o", "e", "A", "T", "d", "o", "m", "a", "i", "n", ".", "y", "q">>,
      <<"@", "d", "o", "m", "a", "i", "n", ".", "y", "q">>,
      <<"j", "o", "h", "n", ".", "d", "o", "e", "@">> }

\* Addresses whose domain part holds a bracketed literal: the texts tried
\* between the brackets, and what may stand around the brackets.
SampleLiterals ==
    { <<"1", "2", "7", ".", "0", ".", "0", ".", "1">>,
      <<"1", ".", "1", ".", "1">>,
      <<"1", ".", "1", ".", "1", ".", "2", "5", "6">>,
      <<":", ":", "1">>,
      <<"1", ":", ":">>,
      <<":", ":", "1", ":", ":">>,
      <<"1", ":", "2", ":", "3", ":", "4", ":", "5", ":", "6", ":", "7", ":", "8">>,
      <<"1", ":", "2", ":", "3", ":", "4", ":", "5", ":", "6", ":", "7">>,
      <<":", ":", "f", "f", "f", "f", ":", "1", ".", "1", ".", "1", ".", "1">>,
      <<"a">> }
LiteralEmails ==
    { user \o <<"@">> \o before \o <<"[">> \o ip \o <<"]">> \o after :
        user \in {<<"a">>, <<"a", " ">>},
        before \in {<<>>, <<" ">>, <<".">>, <<"a">>, <<"[">>},
        ip \in SampleLiterals,
        after \in {<<>>, <<" ">>} }

EmailInputs ==
    StringsUpTo(EmailAlphabet, MaxEmailStrLen) \cup TestEmails \cup LiteralEmails

InitParse ==
    /\ InitService
    /\ client = NoClient
    /\ call = [c \in Calls |-> NoCall]
    /\ outbox = <<>>
    /\ config = NoConfig
    /\ proc = "serving"
    /\ raw \in {[kind |-> "name", s |-> n] : n \in NameInputs}
              \cup {[kind |-> "email", s |-> e] : e \in EmailInputs}
    /\ out = NoOut
    /\ subscriber = {}

\* SubscriberName::parse(raw)
ParseName ==
    /\ raw.kind = "name"
    /\ out.parse.kind = "none"
    /\ out' = [out EXCEPT !.parse = SubscriberName_parse(raw.s)]
    /\ UNCHANGED <<svcVars, health, mailVars, raw, subscriber>>

\* routes::subscriptions::is_valid_name(raw)
CheckName ==
    /\ raw.kind = "name"
    /\ out.valid = "none"
    /\ out' = [out EXCEPT !.valid = IF is_valid_name(raw.s) THEN "true" ELSE "false"]
    /\ UNCHANGED <<svcVars, health, mailVars, raw, subscriber>>

\* SubscriberEmail::parse(raw)
ParseEmail ==
    /\ raw.kind = "email"
    /\ out.parse.kind = "none"
    /\ out' = [out EXCEPT !.parse = SubscriberEmail_parse(raw.s)]
    /\ UNCHANGED <<svcVars, health, mailVars, raw, subscriber>>

\* The (email, name) pairs a NewSubscriber is assembled from.
AssemblyInputs ==
    IF raw.kind = "email" THEN {<<raw.s, n>> : n \in SampleNames}
    ELSE IF raw.kind = "name" THEN {<<e, raw.s>> : e \in SampleEmails}
    ELSE {}

(***************************************************************************)
(* domain.rs: NewSubscriber { email: String, name: SubscriberName }, both  *)
(* fields public: the email is any string, the name comes out of           *)
(* SubscriberName::parse.                                                  *)
(***************************************************************************)
AssembleDomainNewSubscriber(email, name) ==
    /\ subscriber = {}
    /\ LET n == SubscriberName_parse(name)
       IN  /\ n.kind = "Ok"
           /\ subscriber' = {[type |-> "domain::NewSubscriber",
                             email |-> email, name |-> as_ref(n)]}
    /\ UNCHANGED <<svcVars, health, mailVars, raw, out>>

(***************************************************************************)
(* domain/new_subscriber.rs: NewSubscriber { email: SubscriberEmail,       *)
(* name: SubscriberName }: both fields come out of a parse function.       *)
(***************************************************************************)
AssembleNewSubscriber(email, name) ==
    /\ subscriber = {}
    /\ LET e == SubscriberEmail_parse(email)
           n == SubscriberName_parse(name)
       IN  /\ e.kind = "Ok"
           /\ n.kind = "Ok"
           /\ subscriber' = {[type |-> "domain::new_subscriber::NewSubscriber",
                             email |-> as_ref(e), name |-> as_ref(n)]}
    /\ UNCHANGED <<svcVars, health, mailVars, raw, out>>

NextParse ==
    \/ ParseName
    \/ CheckName
    \/ ParseEmail
    \/ \E p \in AssemblyInputs : AssembleDomainNewSubscriber(p[1], p[2])
    \/ \E p \in AssemblyInputs : AssembleNewSubscriber(p[1], p[2])

SpecParse == InitParse /\ [][NextParse]_vars

(***************************************************************************)
(* GET /health_check next to POST /subscriptions, as startup::run routes   *)
(* them: a health check may be served in any state of the service.         *)
(***************************************************************************)
MaxHealthChecks == 2

health_check_unavailable == HttpResponse(503)

\* routes::health_check::health_check: HttpResponse::Ok().finish()
health_check == HttpResponse(200)

HealthCheck ==
    /\ Len(health) < MaxHealthChecks
    /\ health' = Append(health, health_check)
    /\ UNCHANGED <<svcVars, mailVars, parseVars>>

\* The subscription requests served next to the health checks.
HealthFormBodies ==
    { <<>>,
      [email |-> <<"a", "@", "b">>, name |-> <<"a">>],
      [email |-> <<"a">>, name |-> <<"a", "<">>] }

NextHealth ==
    \/ HealthCheck
    \/ \E r \in Reqs, body \in HealthFormBodies : Receive(r, body)
    \/ \E r \in Reqs : Extract(r)
    \/ \E r \in Reqs : SubscribeValidate(r)
    \/ \E r \in Reqs, id \in UuidSpace : InsertOk(r, id)
    \/ \E r \in Reqs, id \in UuidSpace : InsertConflict(r, id)
    \/ \E r \in Reqs : InsertErr(r)
    \/ \E r \in Reqs : SubscribeRespond(r)

SpecHealth == Init /\ [][NextHealth]_vars

(***************************************************************************)
(* The deployed process: main builds the EmailClient from the              *)
(* configuration, then runs the server, whose handlers serve the           *)
(* subscription requests. subscribe takes the form and the pool only, so   *)
(* no handler step calls send_email.                                       *)
(***************************************************************************)
NextDeploy ==
    \/ Main
    \/ ServerEnds
    \/ proc = "serving" /\ \E r \in Reqs, body \in HealthFormBodies : Receive(r, body)
    \/ proc = "serving" /\ \E r \in Reqs : Extract(r)
    \/ proc = "serving" /\ \E r \in Reqs : SubscribeValidate(r)
    \/ proc = "serving" /\ \E r \in Reqs, id \in UuidSpace : InsertOk(r, id)
    \/ proc = "serving" /\ \E r \in Reqs, id \in UuidSpace : InsertConflict(r, id)
    \/ proc = "serving" /\ \E r \in Reqs : InsertErr(r)
    \/ proc = "serving" /\ \E r \in Reqs : SubscribeRespond(r)

SpecDeploy == InitMail /\ [][NextDeploy]_vars

(***************************************************************************)
(* lib.rs: the server of the crate root. Its run routes GET /health_check  *)
(* and POST /subscriptions to handlers of its own, which take no pool: its *)
(* subscribe answers 200 when both fields are non-empty and 400            *)
(* otherwise, and stores nothing.                                          *)
(***************************************************************************)
\* lib.rs: struct FormData { email: String, name: String }
LibFormData(body) == {"email", "name"} \subseteq DOMAIN body

\* lib.rs: health_check
lib_health_check == HttpResponse(200)

LibHealthCheck ==
    /\ Len(health) < MaxHealthChecks
    /\ health' = Append(health, lib_health_check)
    /\ UNCHANGED <<svcVars, mailVars, parseVars>>

\* The extractor of lib.rs's subscribe.
LibExtract(r) ==
    /\ pc[r] = "received"
    /\ IF LibFormData(form[r])
       THEN /\ pc' = [pc EXCEPT ![r] = "subscribe"]
            /\ UNCHANGED <<resp, cause>>
       ELSE /\ pc' = [pc EXCEPT ![r] = "done"]
            /\ resp' = [resp EXCEPT ![r] = UrlencodedErrorResponse(form[r])]
            /\ cause' = [cause EXCEPT ![r] = "form"]
    /\ UNCHANGED <<form, result, rid, store, health, mailVars, parseVars>>

\* lib.rs: subscribe
LibSubscribe(r) ==
    /\ pc[r] = "subscribe"
    /\ pc' = [pc EXCEPT ![r] = "done"]
    /\ IF form[r].email # <<>> /\ form[r].name # <<>>
       THEN /\ resp' = [resp EXCEPT ![r] = HttpResponse(200)]
            /\ UNCHANGED cause
       ELSE /\ resp' = [resp EXCEPT ![r] = HttpResponse(400)]
            /\ cause' = [cause EXCEPT ![r] = "empty"]
    /\ UNCHANGED <<form, result, rid, store, health, mailVars, parseVars>>

NextLib ==
    \/ LibHealthCheck
    \/ \E r \in Reqs, body \in FormBodies : Receive(r, body)
    \/ \E r \in Reqs : LibExtract(r)
    \/ \E r \in Reqs : LibSubscribe(r)

SpecLib == Init /\ [][NextLib]_vars

(***************************************************************************)
(*                              The claims                                 *)
(***************************************************************************)
HasBothFields(body) == "email" \in DOMAIN body /\ "name" \in DOMAIN body
Arrived(r) == pc[r] # "idle"
RowsOf(r) == {row \in store : row.id = rid[r]}
ContainsForbidden(name) ==
    \E i \in 1..Len(name) :
        name[i] \in {"/", "(", ")", "\"", "<", ">", "\\", "{", "}"}
Status(r) == resp[r].status
EmptyResponse(status) == [status |-> status, body |-> <<>>]
RequestsOf(c) == {i \in 1..Len(outbox) : outbox[i].call = c}

(***************************************************************************)
(* C1: a request whose email fails SubscriberEmail validation or whose     *)
(* name fails SubscriberName validation is answered 400, with no insert    *)
(* attempted and no email sent.                                            *)
(***************************************************************************)
C1_InvalidInputIsRejected ==
    \A r \in Reqs :
        ( /\ Arrived(r)
          /\ HasBothFields(form[r])
          /\ \/ ~validate_email(form[r].email)
             \/ ~domain_is_valid_name(form[r].name) )
        => /\ result[r] = "none"
           /\ pc[r] = "done" => resp[r].status = 400
           /\ outbox = <<>>

(***************************************************************************)
(* C2: every row of the subscriptions table has an email that passes       *)
(* SubscriberEmail validation and a name that passes SubscriberName        *)
(* validation.                                                             *)
(***************************************************************************)
C2_StoredRowsAreValid ==
    \A row \in store :
        validate_email(row.email) /\ domain_is_valid_name(row.name)

(***************************************************************************)
(* C3: a request with a valid email and a valid name whose insert          *)
(* succeeded is answered 200 and has exactly one row, holding the          *)
(* submitted email and name unchanged; no request is answered 200 without  *)
(* that row; the table has one row per successful insert.                  *)
(***************************************************************************)
C3_AcceptedRequestIsStoredVerbatim ==
    /\ \A r \in Reqs :
          ( /\ pc[r] = "done"
            /\ HasBothFields(form[r])
            /\ validate_email(form[r].email)
            /\ domain_is_valid_name(form[r].name)
            /\ result[r] = "Ok" )
          => Status(r) = 200
    /\ \A r \in Reqs :
          (Status(r) = 200 \/ result[r] = "Ok")
          => /\ HasBothFields(form[r])
             /\ RowsOf(r) = {[id |-> rid[r], email |-> form[r].email,
                              name |-> form[r].name]}
    /\ Cardinality(store) = Cardinality({r \in Reqs : result[r] = "Ok"})

C3_Witness ==
    \E r \in Reqs :
        /\ pc[r] = "done"
        /\ Status(r) = 200
        /\ form[r] = [email |-> <<"a", "@", "b">>, name |-> <<" ", "a", " ">>]
        /\ [id |-> rid[r], email |-> <<"a", "@", "b">>,
            name |-> <<" ", "a", " ">>] \in store

(***************************************************************************)
(* C4: a request whose body lacks the email field, the name field or both  *)
(* is answered 400 and never enters subscribe: it attempts no insert and   *)
(* no row comes from it.                                                   *)
(***************************************************************************)
C4_MissingFieldIsRejected ==
    \A r \in Reqs :
        (Arrived(r) /\ ~HasBothFields(form[r]))
        => /\ pc[r] \in {"received", "done"}
           /\ pc[r] = "done" => resp[r].status = 400
           /\ result[r] = "none"
           /\ rid[r] = 0
           /\ Cardinality(store) = Cardinality({q \in Reqs \ {r} : result[q] = "Ok"})

C4_Witness ==
    \E r \in Reqs :
        /\ pc[r] = "done"
        /\ DOMAIN form[r] = {"name"}
        /\ is_valid_name(form[r].name)
        /\ resp[r].status = 400
        /\ store = {}

(***************************************************************************)
(* C5: a request whose name contains a forbidden character is answered     *)
(* 400, also when its email is valid; it attempts no insert, no row holds  *)
(* such a name, and no email is sent.                                      *)
(***************************************************************************)
C5_ForbiddenNameIsRejected ==
    /\ \A r \in Reqs :
          ( /\ Arrived(r)
            /\ "name" \in DOMAIN form[r]
            /\ ContainsForbidden(form[r].name) )
          => /\ result[r] = "none"
             /\ pc[r] \in {"received", "subscribe", "done"}
             /\ pc[r] = "done" => resp[r].status = 400
             /\ (pc[r] = "done" /\ HasBothFields(form[r]))
                    => resp[r] = EmptyResponse(400)
    /\ \A row \in store : ~ContainsForbidden(row.name)
    /\ outbox = <<>>

C5_Witness ==
    \E r \in Reqs :
        /\ pc[r] = "done"
        /\ form[r] = [email |-> <<"a", "@", "b">>, name |-> <<"a", "<">>]
        /\ validate_email(form[r].email)
        /\ resp[r] = EmptyResponse(400)

(***************************************************************************)
(* C6: a validated request whose insert failed is answered 500 with an     *)
(* empty body; no row comes from it and no email is sent.                  *)
(***************************************************************************)
C6_StorageFailureIs500 ==
    \A r \in Reqs :
        result[r] = "Err"
        => /\ pc[r] \in {"inserted", "done"}
           /\ pc[r] = "done" => resp[r] = EmptyResponse(500)
           /\ Cardinality(store) = Cardinality({q \in Reqs \ {r} : result[q] = "Ok"})
           /\ outbox = <<>>

C6_Witness ==
    \E r \in Reqs :
        /\ result[r] = "Err"
        /\ is_valid_name(form[r].name)
        /\ pc[r] = "done"
        /\ resp[r] = EmptyResponse(500)

(***************************************************************************)
(* C8: send_email returns Ok exactly when the provider answered with a     *)
(* 2xx status; any other status and any transport failure is an error.     *)
(***************************************************************************)
C8_ErrorOnNonSuccess ==
    \A c \in Calls :
        call[c].pc = "returned"
        => (call[c].ret = "Ok" <=> (call[c].status >= 200 /\ call[c].status <= 299))

C11_DispatchAddressesAreValid ==
    /\ \A i \in 1..Len(outbox) :
          outbox[i].method = "POST" =>
             /\ validate_email(outbox[i].json.From)
             /\ validate_email(outbox[i].json.To)
    /\ \A c \in Calls :
          call[c].pc # "idle" => validate_email(call[c].recipient)
    /\ ~validate_email(config.sender_email)
          => /\ proc # "serving"
             /\ client = NoClient
             /\ outbox = <<>>
             /\ \A c \in Calls : call[c].pc = "idle"

C11_Witness ==
    /\ proc = "serving"
    /\ validate_email(config.sender_email)
    /\ \E i \in 1..Len(outbox) :
          /\ outbox[i].method = "POST"
          /\ outbox[i].json.From = config.sender_email
          /\ outbox[i].json.To = <<"b", "@", "a">>

(***************************************************************************)
(* Claims about the parse functions, under SpecParse.                      *)
(***************************************************************************)
NameParsed == raw.kind = "name" /\ out.parse.kind # "none"
EmailParsed == raw.kind = "email" /\ out.parse.kind # "none"

OnlyWhiteSpace(s) == \A i \in 1..Len(s) : s[i] \in {" ", "\t", "\n", "\r"}
Clusters(s) == Cardinality({i \in 1..Len(s) : StartsCluster(s, i)})
AtCount(s) == Cardinality({i \in 1..Len(s) : s[i] = "@"})
HasWhiteSpace(s) == \E i \in 1..Len(s) : s[i] \in {" ", "\t", "\n", "\r"}

(***************************************************************************)
(* C12: SubscriberName::parse yields no SubscriberName for a string that   *)
(* contains one of the forbidden characters or whose trimmed form is empty *)
(* (the empty string and the whitespace-only strings).                     *)
(***************************************************************************)
C12_ForbiddenOrBlankNameYieldsNoName ==
    (NameParsed /\ (ContainsForbidden(raw.s) \/ OnlyWhiteSpace(raw.s)))
        => out.parse.kind # "Ok"

C12_Witness ==
    /\ NameParsed
    /\ raw.s \in {<<" ", "\t", " ">>, <<"a", "}", "å">>, <<>>}
    /\ out.parse.kind = "panic"

(***************************************************************************)
(* C13: a name of up to 256 grapheme clusters (also of multi-byte          *)
(* characters, also of characters carrying a combining mark) that breaks   *)
(* no other rule is accepted, by SubscriberName::parse and by the          *)
(* handler's is_valid_name; a name of 257 or more clusters is rejected by  *)
(* both.                                                                   *)
(***************************************************************************)
C13_LengthBoundaryIs256 ==
    raw.kind = "name" =>
        LET fits == Clusters(raw.s) <= 256
            otherwise_valid == ~ContainsForbidden(raw.s) /\ ~OnlyWhiteSpace(raw.s)
        IN  /\ out.parse.kind # "none" =>
                /\ ~fits => out.parse.kind # "Ok"
                /\ (fits /\ otherwise_valid) => out.parse.kind = "Ok"
            /\ out.valid # "none" =>
                /\ ~fits => out.valid = "false"
                /\ (fits /\ otherwise_valid) => out.valid = "true"

C13_Witness ==
    /\ raw = [kind |-> "name", s |-> [i \in 1..256 |-> "å"]]
    /\ out.parse.kind = "Ok"
    /\ out.valid = "true"

(***************************************************************************)
(* C14: for every invalid name SubscriberName::parse completes and returns *)
(* an error value to its caller.                                           *)
(***************************************************************************)
C14_InvalidNameReturnsErr ==
    (NameParsed /\ (ContainsForbidden(raw.s) \/ OnlyWhiteSpace(raw.s)
                        \/ Clusters(raw.s) > 256))
        => out.parse.kind = "Err"

(***************************************************************************)
(* C15: SubscriberEmail::parse returns an error for a string without '@',  *)
(* with an empty part before or after the '@', or containing whitespace    *)
(* (the empty string included), and accepts ursula_le_guin@gmail.com.      *)
(***************************************************************************)
C15_MalformedEmailIsAnError ==
    EmailParsed =>
        /\ (\/ AtCount(raw.s) = 0
            \/ raw.s[1] = "@"
            \/ raw.s[Len(raw.s)] = "@"
            \/ HasWhiteSpace(raw.s)) => out.parse.kind = "Err"
        /\ raw.s = UrsulaLeGuin => out.parse.kind = "Ok"

(***************************************************************************)
(* C16 as stated: a string is accepted by SubscriberEmail::parse exactly   *)
(* when it has one '@', no whitespace and a non-empty part on both sides.  *)
(***************************************************************************)
ThreeEmailRules(s) ==
    /\ AtCount(s) = 1
    /\ ~HasWhiteSpace(s)
    /\ s[1] # "@" /\ s[Len(s)] # "@"

C16_ThreeRulesAreTheOnlyRules ==
    EmailParsed => (out.parse.kind = "Ok" <=> ThreeEmailRules(raw.s))

(***************************************************************************)
(* C16, amended: the three rules are not the only rules. Every accepted    *)
(* string has exactly one '@' and a non-empty part on both sides, and has  *)
(* no whitespace unless its domain part ends with a bracketed literal;     *)
(* every string L@D whose parts L and D are non-empty runs of at most 63   *)
(* ASCII letters and digits is accepted, so a '.' in the domain is not     *)
(* required; the strings a@- , a@. and .@. meet the three rules and are    *)
(* rejected.                                                               *)
(***************************************************************************)
C16_ThreeRulesAreNotTheOnlyRules ==
    EmailParsed =>
        LET s == raw.s
            alnum == \A i \in 1..Len(s) : s[i] \in AsciiLetters \cup Digits \cup {"@"}
            at == CHOOSE i \in 1..Len(s) : s[i] = "@"
        IN  /\ out.parse.kind = "Ok" =>
                  /\ AtCount(s) = 1
                  /\ s[1] # "@" /\ s[Len(s)] # "@"
                  /\ HasWhiteSpace(s) =>
                         (s[Len(s)] = "]" /\ \E i \in (at + 1)..Len(s) : s[i] = "[")
            /\ (ThreeEmailRules(s) /\ alnum /\ Len(s) - at <= 63 /\ at - 1 <= 63)
                   => out.parse.kind = "Ok"
            /\ s \in {<<"a", "@", "-">>, <<"a", "@", ".">>, <<".", "@", ".">>}
                   => out.parse.kind = "Err"

C16_Witness ==
    /\ EmailParsed
    /\ raw.s = <<"a", "@", "a">>
    /\ out.parse.kind = "Ok"

(***************************************************************************)
(* C17: the string read back from an accepted SubscriberEmail or           *)
(* SubscriberName with as_ref is the string handed to parse, unchanged:    *)
(* an accepted name keeps its leading and trailing whitespace and its      *)
(* punctuation.                                                            *)
(***************************************************************************)
C17_AsRefReturnsTheInput ==
    (raw.kind \in {"name", "email"} /\ out.parse.kind = "Ok")
        => out.parse.value = raw.s

C17_Witness ==
    /\ NameParsed
    /\ raw.s = <<"\t", ".", " ">>
    /\ out.parse.kind = "Ok"
    /\ out.parse.value = <<"\t", ".", " ">>

(***************************************************************************)
(* C18: every NewSubscriber holds an email that passes SubscriberEmail     *)
(* validation and a name that passes SubscriberName validation.            *)
(***************************************************************************)
C18_NewSubscriberHoldsValidatedParts ==
    \A v \in subscriber :
        /\ validate_email(v.email)
        /\ ~ContainsForbidden(v.name) /\ ~OnlyWhiteSpace(v.name)
        /\ Clusters(v.name) <= 256

(***************************************************************************)
(* C19: when the email and the name of a request are both invalid, the     *)
(* check that rejects the request is the email's.                          *)
(***************************************************************************)
C19_EmailErrorIsReported ==
    \A r \in Reqs :
        ( /\ pc[r] = "done"
          /\ HasBothFields(form[r])
          /\ AtCount(form[r].email) = 0
          /\ (ContainsForbidden(form[r].name) \/ OnlyWhiteSpace(form[r].name)) )
        => cause[r] = "email"

(***************************************************************************)
(* C20: GET /health_check is answered 200 with an empty body in every      *)
(* state of the service, whatever the table holds and whatever requests    *)
(* were served, and serving it changes nothing but the list of answers.    *)
(***************************************************************************)
C20_HealthCheckIs200AndPure ==
    [][health' # health =>
          /\ health' = Append(health, [status |-> 200, body |-> <<>>])
          /\ UNCHANGED <<pc, form, result, rid, resp, store, cause,
                         client, call, outbox, config, proc,
                         raw, out, subscriber>>]_vars

C20_Witness ==
    /\ Len(health) = 2
    /\ store # {}
    /\ \E r \in Reqs : Status(r) = 500
    /\ \A i \in 1..Len(health) : health[i].status = 200

(***************************************************************************)
(* C21: where an email client is deployed, a request whose record was      *)
(* persisted has a send_email call to the address it submitted by the time *)
(* it is answered, and there are no more calls than persisted records (a   *)
(* rejected or failed request has none).                                   *)
(***************************************************************************)
C21_PersistedRequestIsDispatchedOnce ==
    client # NoClient =>
        /\ \A r \in Reqs :
              (pc[r] = "done" /\ result[r] = "Ok") =>
                  \E c \in Calls : /\ call[c].pc # "idle"
                                   /\ call[c].recipient = form[r].email
        /\ Cardinality({c \in Calls : call[c].pc # "idle"})
               <= Cardinality({r \in Reqs : result[r] = "Ok"})

(***************************************************************************)
(* C22: under every interleaving of the requests' steps, each request      *)
(* attempts at most one insert (its insert result, once set, is never set  *)
(* again, and the table grows by one row only with such a result), a step  *)
(* of one request changes nothing of any other request (only the table is  *)
(* shared), and when every received request has been answered the table    *)
(* holds as many rows as there are requests answered 200.                  *)
(***************************************************************************)
C22_ConcurrentRequestsAreIndependent ==
    /\ []((\A r \in Reqs : pc[r] \in {"idle", "done"})
            => Cardinality(store) = Cardinality({r \in Reqs : resp[r].status = 200}))
    /\ [][/\ \A r \in Reqs : result[r] # "none" => result'[r] = result[r]
          /\ store' # store =>
                /\ Cardinality(store') = Cardinality(store) + 1
                /\ \E r \in Reqs : result[r] = "none" /\ result'[r] = "Ok"
          /\ \E r \in Reqs : \A q \in Reqs \ {r} :
                /\ pc'[q] = pc[q] /\ form'[q] = form[q]
                /\ result'[q] = result[q] /\ rid'[q] = rid[q]
                /\ resp'[q] = resp[q] /\ cause'[q] = cause[q]]_vars

C22_Witness ==
    /\ \A r \in Reqs : pc[r] = "done" /\ resp[r].status = 200
    /\ Cardinality(store) = MaxReq

(***************************************************************************)
(* C23: a request is unanswered until it is done and is then answered      *)
(* with one of 400, 500 and 200; 400 is given before any insert, 500 after *)
(* a failed insert only and 200 after a successful one only; an insert is  *)
(* attempted only for a request that has passed validation, of its email   *)
(* and of its name.                                                        *)
(***************************************************************************)
C23_RequestLifecycle ==
    \A r \in Reqs :
        /\ pc[r] # "done" => resp[r].status = 0
        /\ pc[r] = "done" => resp[r].status \in {400, 500, 200}
        /\ resp[r].status = 400 => result[r] = "none"
        /\ resp[r].status = 500 => result[r] = "Err"
        /\ resp[r].status = 200 => result[r] = "Ok"
        /\ (pc[r] = "insert" \/ result[r] # "none") =>
              /\ HasBothFields(form[r])
              /\ validate_email(form[r].email)
              /\ ~ContainsForbidden(form[r].name)
              /\ ~OnlyWhiteSpace(form[r].name)
              /\ Clusters(form[r].name) <= 256

(***************************************************************************)
(* C24: no two rows of the table have the same id; an insert whose         *)
(* generated id is already the id of a row fails, leaves the table as it   *)
(* was, and its request is answered 500.                                   *)
(***************************************************************************)
C24_IdentifiersAreUnique ==
    /\ [](\A a \in store : \A b \in store : a.id = b.id => a = b)
    /\ [](\A r \in Reqs : (pc[r] = "done" /\ result[r] = "Err") => resp[r].status = 500)
    /\ [][\A r \in Reqs :
            (/\ pc[r] = "insert" /\ pc'[r] = "inserted"
             /\ \E row \in store : row.id = rid'[r])
            => (store' = store /\ result'[r] = "Err")]_vars

C24_Witness ==
    \E r \in Reqs :
        /\ pc[r] = "done" /\ result[r] = "Err" /\ resp[r].status = 500
        /\ Cardinality({row \in store : row.id = rid[r]}) = 1
        /\ \E q \in Reqs \ {r} : rid[q] = rid[r] /\ result[q] = "Ok"

(***************************************************************************)
(* C25: the handler's is_valid_name accepts a string exactly when          *)
(* SubscriberName::parse, through domain::is_valid_name, yields a          *)
(* SubscriberName for it.                                                  *)
(***************************************************************************)
C25_NameChecksAgree ==
    (raw.kind = "name" /\ out.parse.kind # "none" /\ out.valid # "none")
        => (out.valid = "true" <=> out.parse.kind = "Ok")

C25_Witness ==
    /\ raw.kind = "name"
    /\ Len(raw.s) = 512
    /\ out.valid = "true"
    /\ out.parse.kind = "Ok"

====
